---- MODULE Spec2Model ----
(***************************************************************************)
(* Pugpug: schema-migration helper for Postgres (src/pugpug.py).           *)
(*                                                                         *)
(* The model covers the state engine (PugPugState), the introspector       *)
(* (PugPugPG) and the command layer (PugPug).                              *)
(*                                                                         *)
(* Representation of Python values                                         *)
(*   - a text (str) that is schema text, a digest, or a joined digest list *)
(*     is a sequence of lines, each line a tuple of word tokens; the empty *)
(*     string is <<>>;                                                     *)
(*   - hashlib.sha1(..).hexdigest() is collision free on the texts of the  *)
(*     model: the digest of s is s behind a marker line;                   *)
(*   - a slug, a comment and a timestamp are sequences of ASCII codes, so  *)
(*     that Python's string order is the lexicographic order on them;      *)
(*   - a dict is a function, None for a missing slug is the empty tuple;   *)
(*   - a list whose order the program never relies on is a set.            *)
(***************************************************************************)
EXTENDS Integers, Sequences, FiniteSets, TLC

\* ------------------------------------------------------------------ bounds

\* the table names of the modelled database, in sorted() order
TableOrder == <<"a", "b">>
Tables == {TableOrder[i] : i \in 1..Len(TableOrder)}

\* schema versions a table can be at (0 stands for "the table does not exist")
MaxVer == 2
Versions == 1..MaxVer

\* most migration records the sequence holds
MaxMigs == 2

\* clock ticks (seconds) the model lets pass
MaxTicks == 1

\* the wall clock at the first state: 00:59:59 on the 15th, in seconds since midnight
ClockStart == 59 * 60 + 59

\* ------------------------------------------------------------- dict helpers

None == <<>>

EmptyDict == <<>>

\* d.get(k, default)
Get(d, k, default) == IF k \in DOMAIN d THEN d[k] ELSE default

\* d[k] = v
Put(d, k, v) == [x \in DOMAIN d \cup {k} |-> IF x = k THEN v ELSE d[x]]

\* every order a dict (Python 3.3: no order guaranteed) can be iterated in
Orders(S) == {o \in [1..Cardinality(S) -> S] : \A i, j \in 1..Cardinality(S) : i # j => o[i] # o[j]}

\* lexicographic order on sequences of integers: Python's str comparison
RECURSIVE LexLess(_, _)
LexLess(s, t) ==
    IF t = <<>> THEN FALSE
    ELSE IF s = <<>> THEN TRUE
    ELSE IF Head(s) # Head(t) THEN Head(s) < Head(t)
    ELSE LexLess(Tail(s), Tail(t))

\* max(keys)
MaxKey(S) == CHOOSE k \in S : \A x \in S : x = k \/ LexLess(x, k)

\* ------------------------------------------------------------------ hashing

\* string_sha = lambda s: hashlib.sha1(s.encode('utf8')).hexdigest()
string_sha(s) == << <<"sha1">> >> \o s

EMPTYSHA == string_sha(<<>>)

\* ------------------------------------------------- the live database (Postgres)

\* a database state: the schema version of each table, 0 when it does not exist;
\* table b has one version only
DbStates == {d \in [Tables -> 0..MaxVer] : d["b"] <= 1}

\* the lines pg_dump -xs writes for one table
DumpTable(table, ver) ==
    << <<"--", "Name:", table>>,
       <<>>,
       <<"CREATE TABLE", table, "(">>,
       <<"col", ToString(ver)>>,
       <<");">> >>

\* the lines pg_dump -xs <db> -t <table> writes
PgDumpTable(d, table) ==
    << <<"SET", "statement_timeout = 0;">>, <<>> >> \o DumpTable(table, d[table])

RECURSIVE DumpAll(_, _)
DumpAll(d, i) ==
    IF i > Len(TableOrder) THEN <<>>
    ELSE (IF d[TableOrder[i]] = 0 THEN <<>> ELSE DumpTable(TableOrder[i], d[TableOrder[i]]))
         \o DumpAll(d, i + 1)

\* the lines pg_dump -xs <db> writes
PgDump(d) == << <<"SET", "statement_timeout = 0;">>, <<>> >> \o DumpAll(d, 1)

\* re.match("^(\s*--.*|\s*)$", line)
IsCommentOrBlank(line) == line = <<>> \/ line[1] = "--"

\* re.match("^SET .*;", line)
IsSet(line) == line # <<>> /\ line[1] = "SET"

\* re.match("^CREATE TABLE (\w+)", line)
IsCreate(line) == line # <<>> /\ line[1] = "CREATE TABLE"

NotCommentOrBlank(line) == ~IsCommentOrBlank(line)

NotSet(line) == ~IsSet(line)

\* PugPugPG.list_tables
list_tables(d) ==
    LET raw == PgDump(d)
    IN {raw[i][2] : i \in {j \in 1..Len(raw) : IsCreate(raw[j])}}

\* PugPugPG.show_create
show_create(d, table) ==
    LET raw == PgDumpTable(d, table)
        lines == SelectSeq(raw, NotCommentOrBlank)
    IN SelectSeq(lines, NotSet)

\* PugPugPG.show_full_create
show_full_create(d) ==
    LET raw == PgDump(d)
        lines == SelectSeq(raw, NotCommentOrBlank)
    IN SelectSeq(lines, NotSet)

\* PugPugPG.table_summary
table_summary(d, table) ==
    LET sql == show_create(d, table)
    IN [sql |-> sql, sha |-> string_sha(sql)]

\* PugPugPG.db_summary
db_summary(d) == [t \in list_tables(d) |-> table_summary(d, t)]

\* every snapshot the introspector can produce
Snapshots == {db_summary(d) : d \in DbStates}

\* ------------------------------------------------------------- SQL scripts

\* SQL statements, one per line of a script
SetStmt(table, ver) == << <<"DROP TABLE IF EXISTS", table>>, <<"CREATE TABLE", table, ToString(ver)>> >>

DropStmt(table) == << <<"DROP TABLE IF EXISTS", table>> >>

\* what somebody runs against the database by hand: table a is created, altered and
\* dropped; table b stays as the first state has it
Statements == {SetStmt("a", v) : v \in Versions} \cup {DropStmt("a")}

\* the migration scripts given to add
Scripts == {SetStmt("a", MaxVer), DropStmt("a")}

VerOf(word) == CHOOSE v \in Versions : ToString(v) = word

\* psql runs the statements of a script in order
RECURSIVE ApplySql(_, _)
ApplySql(script, d) ==
    IF script = <<>> THEN d
    ELSE LET st == Head(script)
             d1 == IF st[1] = "DROP TABLE IF EXISTS" THEN [d EXCEPT ![st[2]] = 0]
                   ELSE IF st[1] = "CREATE TABLE" /\ d[st[2]] = 0 THEN [d EXCEPT ![st[2]] = VerOf(st[3])]
                   ELSE d
         IN ApplySql(Tail(script), d1)

\* ---------------------------------------------------------------- slugs

Digit(n) == 48 + n

\* "%02d"
TwoDigits(n) == <<Digit(n \div 10), Digit(n % 10)>>

Dash == 45

Underscore == 95

\* datetime.now().strftime("%Y-%M-%d_%H-%M-%S-"); the second field is %M, the minute
strftime(t) ==
    LET day == 15 + (t \div 86400)
        hour == (t \div 3600) % 24
        minute == (t \div 60) % 60
        second == t % 60
    IN <<Digit(2), Digit(0), Digit(1), Digit(3), Dash>> \o TwoDigits(minute) \o <<Dash>>
       \o TwoDigits(day) \o <<Underscore>> \o TwoDigits(hour) \o <<Dash>>
       \o TwoDigits(minute) \o <<Dash>> \o TwoDigits(second) \o <<Dash>>

IsUpper(c) == c >= 65 /\ c <= 90

IsAlnum(c) == (c >= 48 /\ c <= 57) \/ (c >= 65 /\ c <= 90) \/ (c >= 97 /\ c <= 122)

Lower(c) == IF IsUpper(c) THEN c + 32 ELSE c

\* slugify: lower case, every run of other characters becomes one dash, no dash at
\* either end
RECURSIVE SlugChars(_, _)
SlugChars(s, pendingDash) ==
    IF s = <<>> THEN <<>>
    ELSE IF IsAlnum(Head(s))
         THEN (IF pendingDash THEN <<Dash>> ELSE <<>>) \o <<Lower(Head(s))>> \o SlugChars(Tail(s), FALSE)
         ELSE SlugChars(Tail(s), TRUE)

RECURSIVE StripLead(_)
StripLead(s) == IF s # <<>> /\ ~IsAlnum(Head(s)) THEN StripLead(Tail(s)) ELSE s

slugify(s) == SlugChars(StripLead(s), FALSE)

CommentCut == 40

\* PugPug.mk_slug
mk_slug(t, comment) ==
    slugify(strftime(t) \o SubSeq(comment, 1, IF Len(comment) < CommentCut THEN Len(comment) ELSE CommentCut))

\* "Initial Leap."
InitComment == <<73, 110, 105, 116, 105, 97, 108, 32, 76, 101, 97, 112, 46>>

\* the comments given to add: "Fix a"
Comments == {<<70, 105, 120, 32, 97>>}

\* ------------------------------------------------------------ PugPugState

\* a PugPugState before init_from_zero or load_all has set its attributes
Fresh ==
    [seq |-> EmptyDict, table_transforms |-> EmptyDict, simple_starts |-> EmptyDict,
     seen |-> {}, tables |-> EmptyDict]

\* snap_to_shas as a total map: a table the snapshot lacks is given the EMPTY hash
snap_to_shas_total(snap) == [t \in Tables |-> IF t \in DOMAIN snap THEN snap[t].sha ELSE EMPTYSHA]

\* PugPugState.snap_to_shas
snap_to_shas(snap) == [t \in DOMAIN snap |-> snap[t].sha]

\* "&".join("%s=%s" % (k, db_snap[k]) for the i-th and later keys of sorted(keys))
RECURSIVE JoinDefs(_, _, _)
JoinDefs(shas, i, first) ==
    IF i > Len(TableOrder) THEN <<>>
    ELSE IF TableOrder[i] \in DOMAIN shas
         THEN (IF first THEN <<>> ELSE << <<"&">> >>)
              \o << <<TableOrder[i], "=">> >> \o shas[TableOrder[i]]
              \o JoinDefs(shas, i + 1, FALSE)
         ELSE JoinDefs(shas, i + 1, first)

\* snap_sha hashing the table names only
snap_sha_names_only(shas) == string_sha([i \in 1..Cardinality(DOMAIN shas) |-> <<"table">>])

\* PugPugState.snap_sha
snap_sha(shas) == string_sha(JoinDefs(shas, 1, TRUE))

\* index_migration with the joint-state shortcut keyed by the end state
index_migration_by_end(st, slug, mig) ==
    LET start_shas == mig.start_shas
        end_shas == mig.end_shas
        names == DOMAIN start_shas \cup DOMAIN end_shas
        start_sha(t) == Get(start_shas, t, EMPTYSHA)
        end_sha(t) == Get(end_shas, t, EMPTYSHA)
        old(t) == Get(st.table_transforms, t, EmptyDict)
    IN [st EXCEPT
          !.simple_starts = Put(st.simple_starts, string_sha(JoinDefs(end_shas, 1, TRUE)), slug),
          !.table_transforms =
              [t \in DOMAIN st.table_transforms \cup names |->
                  IF t \in names /\ start_sha(t) # end_sha(t)
                  THEN Put(old(t), start_sha(t), slug)
                  ELSE old(t)],
          !.seen = st.seen \cup {start_sha(t) : t \in names} \cup {end_sha(t) : t \in names}]

\* PugPugState.index_migration
index_migration(st, slug, mig) ==
    LET start_shas == mig.start_shas
        end_shas == mig.end_shas
        names == DOMAIN start_shas \cup DOMAIN end_shas
        start_sha(t) == Get(start_shas, t, EMPTYSHA)
        end_sha(t) == Get(end_shas, t, EMPTYSHA)
        old(t) == Get(st.table_transforms, t, EmptyDict)
    IN [st EXCEPT
          !.simple_starts = Put(st.simple_starts, snap_sha(start_shas), slug),
          !.table_transforms =
              [t \in DOMAIN st.table_transforms \cup names |->
                  IF t \in names /\ start_sha(t) # end_sha(t)
                  THEN Put(old(t), start_sha(t), slug)
                  ELSE old(t)],
          !.seen = st.seen \cup {start_sha(t) : t \in names} \cup {end_sha(t) : t \in names}]

\* update_table_snaps keeping only the latest text of a table: the mapping of a
\* table of the snapshot is replaced by the entry of its current hash
update_table_snaps_latest_only(st, db_snapshot) ==
    [st EXCEPT !.tables =
        [name \in DOMAIN st.tables \cup DOMAIN db_snapshot |->
            IF name \in DOMAIN db_snapshot
            THEN Put(EmptyDict, db_snapshot[name].sha, db_snapshot[name].sql)
            ELSE st.tables[name]]]

\* PugPugState.update_table_snaps
update_table_snaps(st, db_snapshot) ==
    [st EXCEPT !.tables =
        [name \in DOMAIN st.tables \cup DOMAIN db_snapshot |->
            LET table == Get(st.tables, name, EmptyDict)
            IN IF name \in DOMAIN db_snapshot /\ db_snapshot[name].sha \notin DOMAIN table
               THEN Put(table, db_snapshot[name].sha, db_snapshot[name].sql)
               ELSE table]]

\* add_migration with the two snapshots taken for each other
add_migration_swapped(st, slug, comment, sql, start_snap, end_snap) ==
    LET mig == [comment |-> comment,
                start_shas |-> snap_to_shas(end_snap),
                end_shas |-> snap_to_shas(start_snap),
                sql_sha |-> string_sha(sql)]
        st1 == [st EXCEPT !.seq = Put(st.seq, slug, mig)]
        st2 == index_migration(st1, slug, mig)
    IN update_table_snaps(st2, end_snap)

\* PugPugState.add_migration
add_migration(st, slug, comment, sql, start_snap, end_snap) ==
    LET mig == [comment |-> comment,
                start_shas |-> snap_to_shas(start_snap),
                end_shas |-> snap_to_shas(end_snap),
                sql_sha |-> string_sha(sql)]
        st1 == [st EXCEPT !.seq = Put(st.seq, slug, mig)]
        st2 == index_migration(st1, slug, mig)
    IN update_table_snaps(st2, end_snap)

\* PugPugState.init_from_zero, when it does not raise
init_from_zero == Fresh

\* the loop "for slug, mig in self.seq.items(): self.index_migration(slug, mig)",
\* from the i-th item of the iteration order on
RECURSIVE IndexFrom(_, _, _)
IndexFrom(st, order, i) ==
    IF i > Len(order) THEN st
    ELSE IndexFrom(index_migration(st, order[i], st.seq[order[i]]), order, i + 1)

\* PugPugState.load_all up to the table snapshots: the sequence and the index
load_index(seqData, order) == IndexFrom([Fresh EXCEPT !.seq = seqData], order, 1)

\* load_all that does not read the saved sequence: the engine starts from an empty
\* sequence and index
load_all_without_sequence(seqData, files, order) == Fresh

\* PugPugState.load_all, when every file it opens exists
load_all(seqData, files, order) ==
    LET st == load_index(seqData, order)
    IN [st EXCEPT !.tables = [t \in DOMAIN st.table_transforms |-> files[t]]]

\* check_validity with the post-run branch comparing the start hash again
check_validity_start_only(st, slug, db_snap, postrun) ==
    LET db_shas == snap_to_shas(db_snap)
        mig == st.seq[slug]
        names == DOMAIN mig.start_shas \cup DOMAIN mig.end_shas
        start(name) == Get(mig.start_shas, name, EMPTYSHA)
        end(name) == Get(mig.end_shas, name, EMPTYSHA)
        live(name) == Get(db_shas, name, EMPTYSHA)
        bad_tables == {name \in names : start(name) # end(name) /\ start(name) # live(name)}
    IN IF Cardinality(bad_tables) # 0
       THEN [isNone |-> FALSE, tables |-> bad_tables]
       ELSE [isNone |-> TRUE, tables |-> {}]

\* PugPugState.check_validity; the list it returns is a set here
check_validity(st, slug, db_snap, postrun) ==
    LET db_shas == snap_to_shas(db_snap)
        mig == st.seq[slug]
        names == DOMAIN mig.start_shas \cup DOMAIN mig.end_shas
        start(name) == Get(mig.start_shas, name, EMPTYSHA)
        end(name) == Get(mig.end_shas, name, EMPTYSHA)
        live(name) == Get(db_shas, name, EMPTYSHA)
        bad_tables == {name \in names :
                          /\ start(name) # end(name)
                          /\ \/ (start(name) # live(name) /\ ~postrun)
                             \/ (~(start(name) # live(name) /\ ~postrun)
                                 /\ postrun /\ end(name) # live(name))}
    IN IF Cardinality(bad_tables) # 0
       THEN [isNone |-> FALSE, tables |-> bad_tables]
       ELSE [isNone |-> TRUE, tables |-> {}]

\* PugPugState.is_up_to_date
is_up_to_date(st, db_snap) ==
    LET query_sha == snap_sha(snap_to_shas(db_snap))
        mig_key == MaxKey(DOMAIN st.seq)
    IN query_sha = snap_sha(st.seq[mig_key].end_shas)

\* PugPugState.find_next_migration_simple
find_next_migration_simple(st, db_snap) ==
    LET query_sha == snap_sha(snap_to_shas(db_snap))
    IN Get(st.simple_starts, query_sha, None)

\* find_next_migration_advanced with one-to-many transforms: a table joins the group
\* of every recorded migration that changes it from its live hash
find_next_migration_advanced_all_branches(st, db_snap) ==
    LET db_shas == snap_to_shas(db_snap)
        tables == DOMAIN db_snap \cup DOMAIN st.tables
        table_sha(table) == Get(db_shas, table, EMPTYSHA)
        changes(m, table) ==
            /\ Get(st.seq[m].start_shas, table, EMPTYSHA) # Get(st.seq[m].end_shas, table, EMPTYSHA)
            /\ Get(st.seq[m].start_shas, table, EMPTYSHA) = table_sha(table)
        pending(table) == {m \in DOMAIN st.seq : changes(m, table)}
        up_to_date == {t \in tables : pending(t) = {} /\ table_sha(t) \in st.seen}
        error == {t \in tables : pending(t) = {} /\ table_sha(t) \notin st.seen}
        slugs == UNION {pending(t) : t \in tables}
        next_migs == [m \in slugs |-> {t \in tables : m \in pending(t)}]
        checked == [m \in slugs |-> check_validity(st, m, db_snap, FALSE)]
    IN [isNone |-> Cardinality(slugs) = 0,
        next_migs |-> next_migs,
        up_to_date |-> up_to_date,
        unknown_state |-> {t \in error : t \in DOMAIN st.tables},
        unknown_table |-> {t \in error : t \notin DOMAIN st.tables},
        runnable |-> {m \in slugs : checked[m].isNone},
        blocked |-> [m \in {k \in slugs : ~checked[k].isNone} |-> checked[m].tables]]

\* find_next_migration_advanced giving up on the first table in error: no group is
\* computed when a table is in an unknown state
find_next_migration_advanced_abort_on_error(st, db_snap) ==
    LET db_shas == snap_to_shas(db_snap)
        tables == DOMAIN db_snap \cup DOMAIN st.tables
        table_sha(table) == Get(db_shas, table, EMPTYSHA)
        next_sha(table) == Get(Get(st.table_transforms, table, EmptyDict), table_sha(table), None)
        up_to_date == {t \in tables : next_sha(t) = None /\ table_sha(t) \in st.seen}
        error == {t \in tables : next_sha(t) = None /\ table_sha(t) \notin st.seen}
        slugs == IF error # {} THEN {}
                 ELSE {next_sha(t) : t \in {u \in tables : next_sha(u) # None}}
        next_migs == [m \in slugs |-> {t \in tables : next_sha(t) = m}]
        checked == [m \in slugs |-> check_validity(st, m, db_snap, FALSE)]
    IN [isNone |-> Cardinality(slugs) = 0,
        next_migs |-> next_migs,
        up_to_date |-> up_to_date,
        unknown_state |-> {t \in error : t \in DOMAIN st.tables},
        unknown_table |-> {t \in error : t \notin DOMAIN st.tables},
        runnable |-> {m \in slugs : checked[m].isNone},
        blocked |-> [m \in {k \in slugs : ~checked[k].isNone} |-> checked[m].tables]]

\* find_next_migration_advanced looking only at the tables of the live snapshot, the
\* tables with history that the snapshot lacks being skipped
find_next_migration_advanced_live_only(st, db_snap) ==
    LET db_shas == snap_to_shas(db_snap)
        tables == DOMAIN db_snap
        table_sha(table) == Get(db_shas, table, EMPTYSHA)
        next_sha(table) == Get(Get(st.table_transforms, table, EmptyDict), table_sha(table), None)
        up_to_date == {t \in tables : next_sha(t) = None /\ table_sha(t) \in st.seen}
        error == {t \in tables : next_sha(t) = None /\ table_sha(t) \notin st.seen}
        slugs == {next_sha(t) : t \in {u \in tables : next_sha(u) # None}}
        next_migs == [m \in slugs |-> {t \in tables : next_sha(t) = m}]
        checked == [m \in slugs |-> check_validity(st, m, db_snap, FALSE)]
    IN [isNone |-> Cardinality(slugs) = 0,
        next_migs |-> next_migs,
        up_to_date |-> up_to_date,
        unknown_state |-> {t \in error : t \in DOMAIN st.tables},
        unknown_table |-> {t \in error : t \notin DOMAIN st.tables},
        runnable |-> {m \in slugs : checked[m].isNone},
        blocked |-> [m \in {k \in slugs : ~checked[k].isNone} |-> checked[m].tables]]

\* find_next_migration_advanced pre-checking a candidate only on the tables of its
\* group, the other tables of the change-set of the migration being left out
find_next_migration_advanced_group_only(st, db_snap) ==
    LET db_shas == snap_to_shas(db_snap)
        tables == DOMAIN db_snap \cup DOMAIN st.tables
        table_sha(table) == Get(db_shas, table, EMPTYSHA)
        next_sha(table) == Get(Get(st.table_transforms, table, EmptyDict), table_sha(table), None)
        up_to_date == {t \in tables : next_sha(t) = None /\ table_sha(t) \in st.seen}
        error == {t \in tables : next_sha(t) = None /\ table_sha(t) \notin st.seen}
        slugs == {next_sha(t) : t \in {u \in tables : next_sha(u) # None}}
        next_migs == [m \in slugs |-> {t \in tables : next_sha(t) = m}]
        checked == [m \in slugs |->
                       LET bad == check_validity(st, m, db_snap, FALSE).tables \cap next_migs[m]
                       IN [isNone |-> bad = {}, tables |-> bad]]
    IN [isNone |-> Cardinality(slugs) = 0,
        next_migs |-> next_migs,
        up_to_date |-> up_to_date,
        unknown_state |-> {t \in error : t \in DOMAIN st.tables},
        unknown_table |-> {t \in error : t \notin DOMAIN st.tables},
        runnable |-> {m \in slugs : checked[m].isNone},
        blocked |-> [m \in {k \in slugs : ~checked[k].isNone} |-> checked[m].tables]]

\* PugPugState.find_next_migration_advanced: what it returns (next_migs, None when
\* there is none) and what it prints (the error tables by kind, the migrations it
\* reports as runnable, the migrations it reports as blocked with their tables)
find_next_migration_advanced(st, db_snap) ==
    LET db_shas == snap_to_shas(db_snap)
        tables == DOMAIN db_snap \cup DOMAIN st.tables
        table_sha(table) == Get(db_shas, table, EMPTYSHA)
        next_sha(table) == Get(Get(st.table_transforms, table, EmptyDict), table_sha(table), None)
        up_to_date == {t \in tables : next_sha(t) = None /\ table_sha(t) \in st.seen}
        error == {t \in tables : next_sha(t) = None /\ table_sha(t) \notin st.seen}
        slugs == {next_sha(t) : t \in {u \in tables : next_sha(u) # None}}
        next_migs == [m \in slugs |-> {t \in tables : next_sha(t) = m}]
        checked == [m \in slugs |-> check_validity(st, m, db_snap, FALSE)]
    IN [isNone |-> Cardinality(slugs) = 0,
        next_migs |-> next_migs,
        up_to_date |-> up_to_date,
        unknown_state |-> {t \in error : t \in DOMAIN st.tables},
        unknown_table |-> {t \in error : t \notin DOMAIN st.tables},
        runnable |-> {m \in slugs : checked[m].isNone},
        blocked |-> [m \in {k \in slugs : ~checked[k].isNone} |-> checked[m].tables]]

\* PugPugState.get_slugs, as the set it sorts
get_slugs(st) == DOMAIN st.seq

\* PugPugState.get_file: the SQL file of a slug is addressed by the slug
get_file(slug) == slug

\* the instants of the model
Instants == ClockStart..(ClockStart + MaxTicks)

\* mk_slug and db_summary, tabulated
SlugAt == [t \in Instants, c \in Comments \cup {InitComment} |-> mk_slug(t, c)]

Summary == [d \in DbStates |-> db_summary(d)]

\* --------------------------------------------------------------- the state

VARIABLES
    db,          \* the live database: the schema version of each table
    now,         \* the wall clock, in seconds
    seqFile,     \* pugpug/sequence.yml: whether it exists, and the mapping it holds
    tableFiles,  \* pugpug/table_data/<table>.yml: table -> the mapping its file holds
    sqlFiles,    \* pugpug/sql/<slug>.sql: slug -> the script its file holds
    state,       \* PugPug.state, as the last command that built it left it
    race         \* the add commands that run at the same time: where each one is in
                 \* PugPug.add and what it holds in memory, and who saved last

vars == <<db, now, seqFile, tableFiles, sqlFiles, state, race>>

\* the add commands that can run at the same time
Procs == {1, 2}

\* an add command that has not begun
IdleAdd ==
    [pc |-> "idle", slug |-> None, comment |-> <<>>, sql |-> <<>>, mem |-> Fresh,
     db_start |-> EmptyDict, db_end |-> EmptyDict, after |-> {}]

\* no add command has begun
NoRace == [procs |-> [p \in Procs |-> IdleAdd], last |-> 0]

NoSeqFile == [exists |-> FALSE, data |-> EmptyDict]

\* PugPugState.save_all: the sequence file
SavedSeq(st) == [exists |-> TRUE, data |-> st.seq]

\* PugPugState.save_all: one file per table of self.tables, the other files stay
SavedTables(st, files) ==
    [t \in DOMAIN files \cup DOMAIN st.tables |-> IF t \in DOMAIN st.tables THEN st.tables[t] ELSE files[t]]

\* the tables load_all opens a file for: those of table_transforms
IndexedTables(seqData) ==
    UNION {DOMAIN seqData[m].start_shas \cup DOMAIN seqData[m].end_shas : m \in DOMAIN seqData}

\* load_all opens the sequence file and one file per indexed table
CanLoad == seqFile.exists /\ IndexedTables(seqFile.data) \subseteq DOMAIN tableFiles

\* the PugPugState a command can have after load_all: one per iteration order of the
\* loaded dict
Loaded == {load_all(seqFile.data, tableFiles, order) : order \in Orders(DOMAIN seqFile.data)}

Init ==
    /\ db \in DbStates
    /\ now = ClockStart
    /\ seqFile = NoSeqFile
    /\ tableFiles = EmptyDict
    /\ sqlFiles = EmptyDict
    /\ state = Fresh
    /\ race = NoRace

\* a second passes
Tick ==
    /\ now < ClockStart + MaxTicks
    /\ now' = now + 1
    /\ UNCHANGED <<db, seqFile, tableFiles, sqlFiles, state, race>>

\* somebody changes the schema without the tool
ExternalDDL(script) ==
    /\ db' = ApplySql(script, db)
    /\ db' # db
    /\ UNCHANGED <<now, seqFile, tableFiles, sqlFiles, state, race>>

\* PugPug.init, when init_from_zero refuses: the command ends with an exception
InitRefused(force) ==
    /\ seqFile.exists /\ ~force
    /\ UNCHANGED vars

\* PugPug.init
CmdInit(force) ==
    /\ ~(seqFile.exists /\ ~force)
    /\ LET comment == InitComment
           slug == SlugAt[now, comment]
           sql == show_full_create(db)
           db_empty == EmptyDict
           db_snap == Summary[db]
           st == add_migration(init_from_zero, slug, comment, sql, db_empty, db_snap)
       IN /\ state' = st
          /\ seqFile' = SavedSeq(st)
          /\ tableFiles' = SavedTables(st, tableFiles)
    /\ UNCHANGED <<db, now, sqlFiles, race>>

\* a command whose load_all raises, the command ending with the exception: without a
\* repository nothing is written; with a table file missing, add has copied its
\* script by then
LoadFails(copied) ==
    /\ ~CanLoad
    /\ IF seqFile.exists /\ copied # {}
       THEN \E c \in copied, script \in Scripts : sqlFiles' = Put(sqlFiles, get_file(SlugAt[now, c]), script)
       ELSE UNCHANGED sqlFiles
    /\ UNCHANGED <<db, now, seqFile, tableFiles, state, race>>

\* the set of slugs fits the bound of the model
Fits(slug) == slug \in DOMAIN seqFile.data \/ Cardinality(DOMAIN seqFile.data) < MaxMigs

\* PugPug.add, when psql fails: the copied script is removed
AddFails(comment) ==
    /\ CanLoad
    /\ LET slug == SlugAt[now, comment]
           new_file == get_file(slug)
       IN /\ Fits(slug)
          /\ state' \in Loaded
          /\ sqlFiles' = [f \in DOMAIN sqlFiles \ {new_file} |-> sqlFiles[f]]
    /\ UNCHANGED <<db, now, seqFile, tableFiles, race>>

\* PugPug.add
CmdAdd(comment, script) ==
    /\ CanLoad
    /\ LET slug == SlugAt[now, comment]
           new_file == get_file(slug)
           sql == script
           db_start == Summary[db]
           db_after == ApplySql(script, db)
           db_end == Summary[db_after]
       IN /\ Fits(slug)
          /\ sqlFiles' = Put(sqlFiles, new_file, sql)
          /\ db' = db_after
          /\ \E loaded \in Loaded :
                LET st == add_migration(loaded, slug, comment, sql, db_start, db_end)
                IN /\ state' = st
                   /\ seqFile' = SavedSeq(st)
                   /\ tableFiles' = SavedTables(st, tableFiles)
    /\ UNCHANGED <<now, race>>

\* the slug migrate works on: the one given, else the one simple resolution finds
MigrateSlug(st, arg) == IF arg # None THEN arg ELSE find_next_migration_simple(st, Summary[db])

\* migrate running the script of its slug without the pre-check
MigrateRuns_without_precheck(st, arg) ==
    LET slug == MigrateSlug(st, arg)
    IN /\ slug # None
       /\ get_file(slug) \in DOMAIN sqlFiles

\* migrate gets as far as running psql on the script of its slug
MigrateRuns(st, arg) ==
    LET slug == MigrateSlug(st, arg)
    IN /\ slug # None
       /\ check_validity(st, slug, Summary[db], FALSE).isNone
       /\ get_file(slug) \in DOMAIN sqlFiles

\* PugPug.migrate, when it ends before psql has changed anything: no slug, a failed
\* pre-check, no script file for the slug, or psql failing
MigrateStops(arg) ==
    /\ CanLoad
    /\ state' \in Loaded
    /\ UNCHANGED <<db, now, seqFile, tableFiles, sqlFiles, race>>

\* PugPug.migrate, when psql runs the script
CmdMigrate(arg) ==
    /\ CanLoad
    /\ \E st \in Loaded :
          /\ MigrateRuns(st, arg)
          /\ db' = ApplySql(sqlFiles[get_file(MigrateSlug(st, arg))], db)
          /\ state' = st
    /\ UNCHANGED <<now, seqFile, tableFiles, sqlFiles, race>>

\* PugPug.check: what it returns
check(st, d) ==
    LET db_snap == Summary[d]
        next == find_next_migration_simple(st, db_snap)
        adv == find_next_migration_advanced(st, db_snap)
    IN IF is_up_to_date(st, db_snap) THEN [kind |-> "up to date", simple |-> None, advanced |-> EmptyDict]
       ELSE IF next # None THEN [kind |-> "simple", simple |-> next, advanced |-> EmptyDict]
       ELSE IF ~adv.isNone THEN [kind |-> "non-linearizable", simple |-> None, advanced |-> adv.next_migs]
       ELSE [kind |-> "no match", simple |-> None, advanced |-> EmptyDict]

\* PugPug.check, and PugPug.history and PugPug.show without a slug: load_all, then
\* only printing
CmdCheck ==
    /\ CanLoad
    /\ state' \in Loaded
    /\ UNCHANGED <<db, now, seqFile, tableFiles, sqlFiles, race>>

Next ==
    \/ Tick
    \/ \E script \in Statements : ExternalDDL(script)
    \/ \E force \in BOOLEAN : InitRefused(force)
    \/ \E force \in BOOLEAN : CmdInit(force)
    \/ \E copied \in {{}, Comments} : LoadFails(copied)
    \/ \E comment \in Comments : AddFails(comment)
    \/ \E comment \in Comments, script \in Scripts : CmdAdd(comment, script)
    \/ \E arg \in DOMAIN seqFile.data \cup {None} : MigrateStops(arg)
    \/ \E arg \in DOMAIN seqFile.data \cup {None} : CmdMigrate(arg)
    \/ CmdCheck

Spec == Init /\ [][Next]_vars

\* ------------------------------------------- two add commands at the same time

\* the databases of the concurrent runs: table b plays no part
RaceDbs == {d \in DbStates : d["b"] = 0}

\* the add command p, changed by the given fields
WithProc(p, rec) == [race EXCEPT !.procs[p] = rec]

\* a repository that init has made on some database, a live database that may have
\* been changed by hand since, and no add command begun
InitRace ==
    /\ db \in RaceDbs
    /\ now = ClockStart
    /\ \E d0 \in RaceDbs :
          LET st == add_migration(init_from_zero, SlugAt[now, InitComment], InitComment,
                                  show_full_create(d0), EmptyDict, Summary[d0])
          IN /\ state = st
             /\ seqFile = SavedSeq(st)
             /\ tableFiles = SavedTables(st, EmptyDict)
    /\ sqlFiles = EmptyDict
    /\ race = NoRace

\* PugPug.add, from mk_slug to the copy of the script
AddBegins(p, comment, script) ==
    /\ race.procs[p].pc = "idle"
    /\ LET slug == SlugAt[now, comment]
       IN /\ sqlFiles' = Put(sqlFiles, get_file(slug), script)
          /\ race' = WithProc(p, [race.procs[p] EXCEPT !.pc = "copied", !.slug = slug,
                                                       !.comment = comment, !.sql = script])
    /\ UNCHANGED <<db, now, seqFile, tableFiles, state>>

\* PugPug.add: self.state.load_all()
AddLoads(p) ==
    /\ race.procs[p].pc = "copied"
    /\ CanLoad
    /\ \E st \in Loaded :
          race' = WithProc(p, [race.procs[p] EXCEPT
                                  !.pc = "loaded", !.mem = st,
                                  !.after = {q \in Procs : race.procs[q].pc = "done"}])
    /\ UNCHANGED <<db, now, seqFile, tableFiles, sqlFiles, state>>

\* PugPug.add: load_all raises, the command ends with the exception
AddLoadRaises(p) ==
    /\ race.procs[p].pc = "copied"
    /\ ~CanLoad
    /\ race' = WithProc(p, [race.procs[p] EXCEPT !.pc = "crashed"])
    /\ UNCHANGED <<db, now, seqFile, tableFiles, sqlFiles, state>>

\* PugPug.add: db_start = self.pg.db_summary()
AddSnapsStart(p) ==
    /\ race.procs[p].pc = "loaded"
    /\ race' = WithProc(p, [race.procs[p] EXCEPT !.pc = "snapped", !.db_start = Summary[db]])
    /\ UNCHANGED <<db, now, seqFile, tableFiles, sqlFiles, state>>

\* PugPug.add: self.pg.run_sql(new_file)
AddRunsSql(p) ==
    /\ race.procs[p].pc = "snapped"
    /\ get_file(race.procs[p].slug) \in DOMAIN sqlFiles
    /\ db' = ApplySql(sqlFiles[get_file(race.procs[p].slug)], db)
    /\ race' = WithProc(p, [race.procs[p] EXCEPT !.pc = "ran"])
    /\ UNCHANGED <<now, seqFile, tableFiles, sqlFiles, state>>

\* PugPug.add: run_sql raises, the copied script is removed
AddSqlRaises(p) ==
    /\ race.procs[p].pc = "snapped"
    /\ sqlFiles' = [f \in DOMAIN sqlFiles \ {get_file(race.procs[p].slug)} |-> sqlFiles[f]]
    /\ race' = WithProc(p, [race.procs[p] EXCEPT !.pc = "failed"])
    /\ UNCHANGED <<db, now, seqFile, tableFiles, state>>

\* PugPug.add: db_end = self.pg.db_summary()
AddSnapsEnd(p) ==
    /\ race.procs[p].pc = "ran"
    /\ race' = WithProc(p, [race.procs[p] EXCEPT !.pc = "measured", !.db_end = Summary[db]])
    /\ UNCHANGED <<db, now, seqFile, tableFiles, sqlFiles, state>>

\* PugPug.add: self.state.add_migration(...), self.state.save_all()
AddSaves(p) ==
    /\ race.procs[p].pc = "measured"
    /\ LET me == race.procs[p]
           st == add_migration(me.mem, me.slug, me.comment, me.sql, me.db_start, me.db_end)
       IN /\ seqFile' = SavedSeq(st)
          /\ tableFiles' = SavedTables(st, tableFiles)
          /\ race' = [procs |-> [race.procs EXCEPT ![p] = [me EXCEPT !.pc = "done", !.mem = st]],
                      last |-> p]
    /\ UNCHANGED <<db, now, sqlFiles, state>>

NextRace ==
    \/ Tick
    \/ \E p \in Procs, comment \in Comments, script \in Scripts : AddBegins(p, comment, script)
    \/ \E p \in Procs : AddLoads(p)
    \/ \E p \in Procs : AddLoadRaises(p)
    \/ \E p \in Procs : AddSnapsStart(p)
    \/ \E p \in Procs : AddRunsSql(p)
    \/ \E p \in Procs : AddSqlRaises(p)
    \/ \E p \in Procs : AddSnapsEnd(p)
    \/ \E p \in Procs : AddSaves(p)

SpecRace == InitRace /\ [][NextRace]_vars

\* ------------------------------------------------------------------ claims

\* the hash of a table in a snapshot, a table missing from it counting as EMPTY
LiveSha(S, t) == IF t \in DOMAIN S THEN S[t].sha ELSE EMPTYSHA

\* the start and the end hash a record has for a table, a missing key counting as EMPTY
StartSha(mig, t) == IF t \in DOMAIN mig.start_shas THEN mig.start_shas[t] ELSE EMPTYSHA

EndSha(mig, t) == IF t \in DOMAIN mig.end_shas THEN mig.end_shas[t] ELSE EMPTYSHA

\* the change-set of a record
ChangeSet(mig) == {t \in Tables : StartSha(mig, t) # EndSha(mig, t)}

\* the migrations of the sequence whose recorded start state has the joint hash of S
StartsAt(st, S) ==
    {m \in DOMAIN st.seq : snap_sha(st.seq[m].start_shas) = snap_sha(snap_to_shas(S))}

\* C1: in every engine state and for every snapshot S, find_next_migration_simple(S)
\* returns a slug only if that migration's recorded start_shas have the joint hash
\* of S, and returns None exactly when no recorded migration starts at the joint hash
\* of S.
C1_SimpleIffStartMatches ==
    \A S \in Snapshots :
        LET M == find_next_migration_simple(state, S)
        IN /\ M # None => M \in StartsAt(state, S)
           /\ M = None <=> StartsAt(state, S) = {}

SnapsOf(shas) == {S \in Snapshots : snap_to_shas(S) = shas}

\* C3 as claimed: right after add has recorded a migration with end snapshot `end`,
\* no migration is recorded later than it, so find_next_migration_simple(end)
\* returns None.
C3_NoneRightAfterRecording ==
    [][\A comment \in Comments, script \in Scripts :
          CmdAdd(comment, script)
          => find_next_migration_simple(state', Summary[db']) = None]_vars

\* C3 amended: right after add has recorded a migration with snapshots start and
\* end, find_next_migration_simple(end) returns a migration if and only if end is
\* the start state of the recorded migration itself (a no-op) or of a migration the
\* sequence held before the recording.
C3_FoundIffSomeStartEqualsEnd ==
    [][\A comment \in Comments, script \in Scripts :
          CmdAdd(comment, script)
          => LET start == snap_to_shas(Summary[db])
                 end == snap_to_shas(Summary[db'])
             IN find_next_migration_simple(state', Summary[db']) # None
                <=> \/ start = end
                    \/ \E M \in DOMAIN seqFile.data : seqFile.data[M].start_shas = end]_vars

\* C3 witness: a migration recorded by add whose end state resolves to a migration:
\* to itself, or to one recorded before it
C3_Witness ==
    \E m \in DOMAIN state.seq :
        /\ state.seq[m].comment \in Comments
        /\ \E S \in SnapsOf(state.seq[m].end_shas) :
              /\ find_next_migration_simple(state, S) # None
              /\ S = Summary[db]

\* C4 as claimed: after init against the live snapshot S, whatever tables S has,
\* find_next_migration_simple(S) returns None and is_up_to_date(S) is true.
C4_InitThenNoneAndUpToDate ==
    [][\A force \in BOOLEAN :
          CmdInit(force)
          => /\ find_next_migration_simple(state', Summary[db]) = None
             /\ is_up_to_date(state', Summary[db])]_vars

\* C4 amended: after init against the live snapshot S, is_up_to_date(S) is true;
\* find_next_migration_simple(S) returns None when S has at least one table, and the
\* slug init has just recorded when S has no table.
C4_InitThenUpToDate ==
    [][\A force \in BOOLEAN :
          CmdInit(force)
          => LET S == Summary[db]
             IN /\ is_up_to_date(state', S)
                /\ DOMAIN S # {} => find_next_migration_simple(state', S) = None
                /\ DOMAIN S = {} => find_next_migration_simple(state', S) = SlugAt[now, InitComment]]_vars

\* C4 witness: the state init leaves for a database with tables: one record, from no
\* table to the live tables
C4_Witness ==
    /\ DOMAIN Summary[db] # {}
    /\ \E m \in DOMAIN state.seq :
          /\ DOMAIN state.seq = {m}
          /\ state.seq[m].comment = InitComment
          /\ state.seq[m].start_shas = EmptyDict
          /\ state.seq[m].end_shas = snap_to_shas(Summary[db])
    /\ seqFile.data = state.seq
    /\ find_next_migration_simple(state, Summary[db]) = None

\* the scenario of C5: the sequence holds the one record init made for tables a and
\* b, which the database still has, and add records a script that changes a only
C5_Scenario(comment, script) ==
    /\ \E m \in DOMAIN seqFile.data :
          /\ DOMAIN seqFile.data = {m}
          /\ seqFile.data[m].start_shas = EmptyDict
          /\ seqFile.data[m].end_shas = snap_to_shas(Summary[db])
    /\ db["a"] # 0 /\ db["b"] # 0
    /\ CmdAdd(comment, script)
    /\ db'["a"] # 0 /\ db'["a"] # db["a"] /\ db'["b"] = db["b"]

\* C5 as claimed: in the scenario, the snapshot after the migration resolves to the
\* second migration and the snapshot before it does not.
C5_PostStateResolves ==
    [][\A comment \in Comments, script \in Scripts :
          C5_Scenario(comment, script)
          => /\ find_next_migration_simple(state', Summary[db']) = SlugAt[now, comment]
             /\ find_next_migration_simple(state', Summary[db]) # SlugAt[now, comment]]_vars

\* C5 amended: in the scenario, the snapshot before the migration (which is the end
\* state of the first record) resolves to the second migration, and the snapshot
\* after it resolves to no migration.
C5_PreStateResolves ==
    [][\A comment \in Comments, script \in Scripts :
          C5_Scenario(comment, script)
          => /\ find_next_migration_simple(state', Summary[db]) = SlugAt[now, comment]
             /\ find_next_migration_simple(state', Summary[db']) = None
             /\ \E m \in DOMAIN seqFile.data :
                   seqFile.data[m].end_shas = snap_to_shas(Summary[db])]_vars

\* C5 witness: init's record for a and b, a second record that changes a only, and
\* the database at the end state of the second
C5_Witness ==
    \E m1, m2 \in DOMAIN state.seq :
        /\ m1 # m2
        /\ state.seq[m1].start_shas = EmptyDict
        /\ DOMAIN state.seq[m1].end_shas = {"a", "b"}
        /\ state.seq[m2].start_shas = state.seq[m1].end_shas
        /\ ChangeSet(state.seq[m2]) = {"a"}
        /\ DOMAIN state.seq[m2].end_shas = {"a", "b"}
        /\ state.seq[m2].end_shas = snap_to_shas(Summary[db])
        /\ \E S \in SnapsOf(state.seq[m2].start_shas) : find_next_migration_simple(state, S) = m2

\* the candidate groups of an advanced resolution that contain the table
GroupsOf(r, t) == {k \in DOMAIN r.next_migs : t \in r.next_migs[k]}

\* two distinct recorded migrations that both change table t starting from the hash
\* t has in snapshot S
Diverging(st, m1, m2, t, S) ==
    /\ m1 # m2
    /\ t \in ChangeSet(st.seq[m1]) \cap ChangeSet(st.seq[m2])
    /\ StartSha(st.seq[m1], t) = LiveSha(S, t)
    /\ StartSha(st.seq[m2], t) = LiveSha(S, t)

\* C6 as claimed: when two distinct recorded migrations both change the same table
\* starting from the same hash, find_next_migration_advanced on a snapshot with the
\* table at that hash returns both slugs, each with the table in its group and each
\* pre-validated.
C6_BothBranchesReturned ==
    \A S \in Snapshots, t \in Tables, m1, m2 \in DOMAIN state.seq :
        Diverging(state, m1, m2, t, S)
        => LET r == find_next_migration_advanced(state, S)
           IN /\ {m1, m2} \subseteq GroupsOf(r, t)
              /\ {m1, m2} \subseteq r.runnable \cup DOMAIN r.blocked

\* C6 amended: when two distinct recorded migrations both change the same table
\* starting from the same hash, find_next_migration_advanced on a snapshot with the
\* table at that hash puts the table in exactly one candidate group, the one of the
\* slug that table_transforms holds for the table and hash; the two slugs are both
\* keys of the result only when another table points to one of them; and every slug
\* of the result is pre-validated with check_validity, reported as runnable exactly
\* when the check finds no table in violation.
C6_OneBranchReturned ==
    \A S \in Snapshots, t \in Tables, m1, m2 \in DOMAIN state.seq :
        Diverging(state, m1, m2, t, S)
        => LET r == find_next_migration_advanced(state, S)
           IN /\ GroupsOf(r, t) = {state.table_transforms[t][LiveSha(S, t)]}
              /\ {m1, m2} \subseteq DOMAIN r.next_migs
                 => \E u \in Tables \ {t} : GroupsOf(r, u) \cap {m1, m2} # {}
              /\ DOMAIN r.next_migs = r.runnable \cup DOMAIN r.blocked
              /\ \A k \in DOMAIN r.next_migs :
                    k \in r.runnable <=> check_validity(state, k, S, FALSE).isNone

\* C6 witness: two recorded migrations diverge on a table, and on a snapshot with the
\* table at the common start hash only one of the two slugs is returned
C6_Witness ==
    \E S \in Snapshots, t \in Tables, m1, m2 \in DOMAIN state.seq :
        /\ Diverging(state, m1, m2, t, S)
        /\ Cardinality(DOMAIN find_next_migration_advanced(state, S).next_migs \cap {m1, m2}) = 1

\* the (slug, table) pairs of the candidate groups, table t left out
GroupsWithout(r, t) ==
    {p \in (DOMAIN r.next_migs) \X (Tables \ {t}) : p[2] \in r.next_migs[p[1]]}

\* the snapshot without the table
SnapWithout(S, t) == [u \in DOMAIN S \ {t} |-> S[u]]

\* the table has, at its hash in S, no per-table transform, and the hash is not a
\* seen hash
InError(st, S, t) ==
    /\ t \in DOMAIN S \cup DOMAIN st.tables
    /\ LiveSha(S, t) \notin DOMAIN Get(st.table_transforms, t, EmptyDict)
    /\ LiveSha(S, t) \notin st.seen

\* C7: a table whose live hash has no per-table transform and is not a seen hash is
\* reported by find_next_migration_advanced as an error, unknown table when it has
\* no history and unknown state otherwise, is in no candidate group, and the groups
\* of the other tables are those computed on the same snapshot without the table.
C7_ErrorTableLeavesOthers ==
    \A S \in Snapshots, t \in Tables :
        InError(state, S, t)
        => LET r == find_next_migration_advanced(state, S)
               r0 == find_next_migration_advanced(state, SnapWithout(S, t))
           IN /\ IF t \in DOMAIN state.tables
                 THEN t \in r.unknown_state /\ t \notin r.unknown_table
                 ELSE t \in r.unknown_table /\ t \notin r.unknown_state
              /\ GroupsOf(r, t) = {}
              /\ t \notin r.up_to_date
              /\ GroupsWithout(r, t) = GroupsWithout(r0, t)

\* C7 witness: on some snapshot one table is reported in error while another table
\* is in a candidate group
C7_Witness ==
    \E S \in Snapshots, t \in Tables :
        LET r == find_next_migration_advanced(state, S)
        IN /\ InError(state, S, t)
           /\ t \in r.unknown_state \cup r.unknown_table
           /\ GroupsWithout(r, t) # {}

\* the tables that point to the slug: over the tables of S and the tables with
\* history, a table S lacks counting as EMPTY, those whose transform at the current
\* hash is the slug
PointsTo(st, S, slug) ==
    {T \in DOMAIN S \cup DOMAIN st.tables :
        /\ T \in DOMAIN st.table_transforms
        /\ LiveSha(S, T) \in DOMAIN st.table_transforms[T]
        /\ st.table_transforms[T][LiveSha(S, T)] = slug}

\* every slug of the model
AllSlugs == {SlugAt[k] : k \in DOMAIN SlugAt}

\* C8: find_next_migration_advanced(S) maps a slug to exactly the tables that point
\* to it; a slug is a key of the result if and only if at least one table points to
\* it, whether its precondition check passes or not; and every table is in at most
\* one group.
C8_GroupsAreExactlyPointers ==
    \A S \in Snapshots :
        LET r == find_next_migration_advanced(state, S)
        IN /\ DOMAIN r.next_migs \subseteq AllSlugs
           /\ \A slug \in AllSlugs :
                 /\ slug \in DOMAIN r.next_migs <=> PointsTo(state, S, slug) # {}
                 /\ slug \in DOMAIN r.next_migs => r.next_migs[slug] = PointsTo(state, S, slug)
           /\ \A t \in Tables : Cardinality(GroupsOf(r, t)) <= 1

\* C8 witness: a slug is returned for a table the snapshot lacks although its
\* precondition check fails, and, on another snapshot, a slug is returned whose
\* check passes
C8_Witness ==
    /\ \E S \in Snapshots :
          LET r == find_next_migration_advanced(state, S)
          IN \E slug \in DOMAIN r.blocked : r.next_migs[slug] \ DOMAIN S # {}
    /\ \E S \in Snapshots : find_next_migration_advanced(state, S).runnable # {}

\* C9: once a sequence is recorded, whenever find_next_migration_advanced returns
\* None for a snapshot, no table of the snapshot or of the history has a pending
\* migration and none is classified as an unknown table or an unknown state.
C9_NoneMeansUpToDate ==
    \A S \in Snapshots :
        LET r == find_next_migration_advanced(state, S)
        IN (DOMAIN state.seq # {} /\ r.isNone)
           => /\ r.unknown_state \cup r.unknown_table = {}
              /\ \A slug \in AllSlugs : PointsTo(state, S, slug) = {}

\* C10 as claimed: every migration record of the sequence has the same table keys
\* in start_shas and in end_shas, a table that does not exist on one side being
\* recorded with the EMPTY hash.
C10_SameKeysBothSides ==
    \A slug \in DOMAIN state.seq :
        DOMAIN state.seq[slug].start_shas = DOMAIN state.seq[slug].end_shas

\* C10 amended: every migration record holds in start_shas exactly the tables of a
\* database snapshot and in end_shas exactly the tables of a database snapshot, each
\* with its digest; a table that does not exist on a side is left out of that side,
\* the EMPTY hash is never stored, and the two key sets differ exactly for the
\* tables the migration creates or drops.
C10_AbsentTablesOmitted ==
    \A slug \in DOMAIN state.seq :
        LET mig == state.seq[slug]
        IN /\ SnapsOf(mig.start_shas) # {}
           /\ SnapsOf(mig.end_shas) # {}
           /\ \A t \in DOMAIN mig.start_shas : mig.start_shas[t] # EMPTYSHA
           /\ \A t \in DOMAIN mig.end_shas : mig.end_shas[t] # EMPTYSHA
           /\ \A t \in Tables :
                 (t \in DOMAIN mig.start_shas <=> t \notin DOMAIN mig.end_shas)
                 <=> (StartSha(mig, t) = EMPTYSHA) # (EndSha(mig, t) = EMPTYSHA)

\* C10 witness: the sequence holds the record of an init on a database with tables
\* and the record of an add that creates or drops a table
C10_Witness ==
    /\ \E slug \in DOMAIN state.seq :
          state.seq[slug].start_shas = EmptyDict /\ state.seq[slug].end_shas # EmptyDict
    /\ \E slug \in DOMAIN state.seq :
          /\ state.seq[slug].start_shas # EmptyDict
          /\ DOMAIN state.seq[slug].start_shas # DOMAIN state.seq[slug].end_shas

\* every (table, hash) entry of the first store is in the second, with the same text
EntriesKept(old, new) ==
    \A t \in DOMAIN old : \A h \in DOMAIN old[t] :
        t \in DOMAIN new /\ h \in DOMAIN new[t] /\ new[t][h] = old[t][h]

\* the store that holds, for each table of the live database, only the entry of its
\* current hash
LiveOnly(d) == [t \in list_tables(d) |-> Put(EmptyDict, Summary[d][t].sha, Summary[d][t].sql)]

\* C11 as claimed: over every step, each (table, hash) entry of the persisted table
\* files and of the in-memory table store is still there afterwards with the same
\* text.
C11_AppendOnlyAlways ==
    [][/\ EntriesKept(tableFiles, tableFiles')
       /\ EntriesKept(state.tables, state'.tables)]_vars

\* the files of the tables that the persisted sequence references
ReferencedFiles ==
    [t \in DOMAIN tableFiles \cap IndexedTables(seqFile.data) |-> tableFiles[t]]

\* C11 amended: every step other than a forced init keeps each entry of the file of a
\* table that the persisted sequence references, with its text, and a command that
\* builds its in-memory store (load_all, then add) holds for each such table of the
\* store every entry its file had; the file of a table that no record references is
\* not loaded and is either left as it was or replaced by what add has in memory. A
\* forced init leaves in memory only the current entry of each live table and
\* overwrites the files of the live tables with just that entry, the files of the
\* other tables staying as they were.
C11_AppendOnlyUnlessForcedInit ==
    [][/\ EntriesKept(ReferencedFiles, tableFiles') \/ (seqFile.exists /\ CmdInit(TRUE))
       /\ \A t \in DOMAIN tableFiles \ IndexedTables(seqFile.data) :
             /\ t \in DOMAIN tableFiles'
             /\ tableFiles'[t] = tableFiles[t]
                \/ (t \in DOMAIN state'.tables /\ tableFiles'[t] = state'.tables[t])
       /\ (seqFile.exists /\ CmdInit(TRUE))
          => /\ state'.tables = LiveOnly(db)
             /\ tableFiles' = [t \in DOMAIN tableFiles \cup list_tables(db) |->
                                  IF t \in list_tables(db) THEN LiveOnly(db)[t] ELSE tableFiles[t]]
       /\ (state' # state /\ ~(seqFile.exists /\ CmdInit(TRUE)))
          => EntriesKept([t \in DOMAIN state'.tables \cap DOMAIN ReferencedFiles |-> tableFiles[t]],
                         state'.tables)]_vars

\* C11 witness: the file and the in-memory store of a table hold two texts, one
\* recorded after the other
C11_Witness ==
    \E t \in DOMAIN tableFiles \cap DOMAIN state.tables :
        /\ Cardinality(DOMAIN tableFiles[t]) >= 2
        /\ state.tables[t] = tableFiles[t]

\* C12: when add records a migration, every record the persisted sequence held
\* before is still there under its slug with the same comment, start_shas, end_shas
\* and sql_sha, and the slug of the new record is not one the sequence already had.
C12_RecordsNeverReplaced ==
    [][\A comment \in Comments, script \in Scripts :
          CmdAdd(comment, script)
          => /\ SlugAt[now, comment] \notin DOMAIN seqFile.data
             /\ \A slug \in DOMAIN seqFile.data :
                   slug \in DOMAIN seqFile'.data /\ seqFile'.data[slug] = seqFile.data[slug]]_vars

\* the TransformIndex of an engine state
IndexOf(st) ==
    [table_transforms |-> st.table_transforms, seen |-> st.seen, simple_starts |-> st.simple_starts]

\* C13: whenever the in-memory sequence is the saved one, the index held in memory is
\* the index load_all rebuilds from the saved sequence, whatever the order in which
\* the loaded mapping is iterated; so any two rebuilds agree as well.
C13_IncrementalEqualsRebuilt ==
    (seqFile.exists /\ state.seq = seqFile.data)
    => \A order \in Orders(DOMAIN seqFile.data) :
          IndexOf(load_index(seqFile.data, order)) = IndexOf(state)

\* C14: when psql fails during add, the persisted sequence and the table files are
\* unchanged, the sequence gets no record, no SQL file is left under the new slug, and
\* the SQL file of every migration recorded before is still there with its script.
C14_FailedAddLeavesStore ==
    [][\A comment \in Comments :
          AddFails(comment)
          => /\ seqFile' = seqFile
             /\ tableFiles' = tableFiles
             /\ get_file(SlugAt[now, comment]) \notin DOMAIN sqlFiles'
             /\ \A slug \in DOMAIN seqFile.data :
                   get_file(slug) \in DOMAIN sqlFiles
                   => /\ get_file(slug) \in DOMAIN sqlFiles'
                      /\ sqlFiles'[get_file(slug)] = sqlFiles[get_file(slug)]]_vars

\* C15: every slug of the saved sequence was made at the current instant or before,
\* and a slug made at any later instant sorts after it: so the greatest slug is that
\* of the migration recorded last.
C15_LaterSlugSortsAfter ==
    \A old \in DOMAIN seqFile.data, t \in Instants, c \in Comments \cup {InitComment} :
        t > now => LexLess(old, SlugAt[t, c])

\* the tables of the change-set of a recorded migration that violate its
\* precondition on a snapshot
PreViolations(st, slug, S) ==
    {t \in ChangeSet(st.seq[slug]) : StartSha(st.seq[slug], t) # LiveSha(S, t)}

\* C17: find_next_migration_advanced reports a candidate slug as runnable exactly
\* when no table of the whole change-set of the migration violates the precondition
\* on the snapshot, and otherwise reports it as blocked with exactly the violating
\* tables, whether they are in the group of the slug or not.
C17_RunnableIffWholeChangeSetClean ==
    \A S \in Snapshots :
        LET r == find_next_migration_advanced(state, S)
        IN \A slug \in DOMAIN r.next_migs :
              /\ slug \in r.runnable <=> PreViolations(state, slug, S) = {}
              /\ slug \in DOMAIN r.blocked <=> PreViolations(state, slug, S) # {}
              /\ slug \in DOMAIN r.blocked => r.blocked[slug] = PreViolations(state, slug, S)

\* C17 witness: a candidate is blocked only by a table that is not in its group
C17_Witness ==
    \E S \in Snapshots :
        LET r == find_next_migration_advanced(state, S)
        IN \E slug \in DOMAIN r.blocked :
              r.blocked[slug] # {} /\ r.blocked[slug] \cap r.next_migs[slug] = {}

\* C19: in every engine state and for every snapshot, a slug that
\* find_next_migration_simple returns passes the precondition check on the same
\* snapshot.
C19_SimpleResultPassesPreCheck ==
    \A S \in Snapshots :
        LET slug == find_next_migration_simple(state, S)
        IN slug # None => check_validity(state, slug, S, FALSE).isNone

\* C20: whenever a sequence has been saved, load_all finds a table file for every
\* table that the records of the sequence mention in start_shas or end_shas.
C20_LoadAfterSaveSucceeds ==
    seqFile.exists => CanLoad

\* the arguments migrate takes in the model: a recorded slug, or none
MigrateArgs == DOMAIN seqFile.data \cup {None}

BothSaved(p, q) ==
    /\ p # q
    /\ race.procs[p].pc = "done"
    /\ race.procs[q].pc = "done"
    /\ race.procs[p].slug # race.procs[q].slug
    /\ race.last = q

\* C18: when two add commands have both run their SQL and saved, under different
\* slugs, the persisted sequence is the one the last saver had in memory: it holds
\* the record of the last saver, and it holds the record of the other command exactly
\* when the last saver loaded after the other had saved. So when both loaded before
\* either saved, the record of the first saver is lost.
C18_LastSaverDecides ==
    \A p, q \in Procs :
        BothSaved(p, q)
        => /\ seqFile.data = race.procs[q].mem.seq
           /\ race.procs[q].slug \in DOMAIN seqFile.data
           /\ race.procs[p].slug \in DOMAIN seqFile.data <=> p \in race.procs[q].after

\* C18 witness: both add commands have completed and run their SQL, and the
\* persisted sequence holds the record of only one of them
C18_Witness ==
    \E p, q \in Procs :
        /\ BothSaved(p, q)
        /\ race.procs[p].slug \notin DOMAIN seqFile.data
        /\ race.procs[q].slug \in DOMAIN seqFile.data
        /\ {get_file(race.procs[p].slug), get_file(race.procs[q].slug)} \subseteq DOMAIN sqlFiles

====
